---- MODULE Spec2Model ----
(***************************************************************************)
(* Model of the validation scripts of himira-buyer-mcp:                    *)
(*   src/validate_system.py  SystemValidator (ten checks), the suite       *)
(*                           runner, print_summary and main                *)
(*   src/test_system.py      the quick health check (four checks) and its  *)
(*                           main; its definitions carry the prefix ts_    *)
(* The check functions are operators over the answers their probes get     *)
(* (HTTP responses, command results, files); the runners and the mains     *)
(* are a state machine over the fields of run_validation_suite and main.   *)
(* Spec, LiveSpec and ProbeSpec take console output (print and the log_*   *)
(* helpers) to succeed; ConsoleSpec follows validate_system.py with a      *)
(* console that fails.                                                     *)
(***************************************************************************)
EXTENDS Integers, Sequences, FiniteSets, TLC

\* Largest points_count / vectors_count / number of hits a response reports.
MaxPoints == 1

\* ------------------------------------------------------------------------
\* JSON values, as response.json() returns them.  JBad is a body that is
\* not JSON at all.
JBad == [t |-> "bad", v |-> <<>>]
JObj(f) == [t |-> "obj", v |-> f]
JArr(s) == [t |-> "arr", v |-> s]
JNum(n) == [t |-> "num", v |-> n]
JStr(s) == [t |-> "str", v |-> s]
JEmpty == JObj(<<>>)

\* dict.get(key, default) on a JSON object.
JGet(d, k, default) == IF k \in DOMAIN d.v THEN d.v[k] ELSE default

\* len(x) of a JSON value that has a length.
JLen(j) == IF j.t = "obj" THEN Cardinality(DOMAIN j.v) ELSE Len(j.v)

\* str(x) of a JSON value inside an f-string.
JFmt(j) == IF j.t = "num" THEN ToString(j.v) ELSE IF j.t = "str" THEN j.v ELSE "<json>"

\* ------------------------------------------------------------------------
\* What a probe call can come to.
\* An HTTP call: a response, a requests.RequestException, or a
\* KeyboardInterrupt delivered while the call is in flight.
Resp(s, b) == [kind |-> "response", status |-> s, body |-> b, err |-> ""]
HttpError(e) == [kind |-> "error", status |-> 0, body |-> JBad, err |-> e]
HttpInterrupt == [kind |-> "interrupt", status |-> 0, body |-> JBad, err |-> ""]

\* What a check function comes to: it returns (passed, message), raises an
\* Exception, or lets a KeyboardInterrupt through.  A message is the sequence
\* of the pieces of its f-string.
Ret(p, m) == [kind |-> "return", passed |-> p, message |-> m]
Raise(e) == [kind |-> "raise", passed |-> FALSE, message |-> <<e>>]
KeyboardInterrupt == [kind |-> "interrupt", passed |-> FALSE, message |-> <<>>]

\* response.json() on a body that is not JSON.  requests >= 2.27 raises
\* requests.exceptions.JSONDecodeError, a RequestException, which the check's
\* handler turns into a failed result; older versions raise a ValueError,
\* which no handler of the check catches.  modern says which of the two the
\* installed library does; prefix is the text of the check's
\* RequestException handler.
JsonDecodeError(modern, prefix) ==
    IF modern THEN Ret(FALSE, <<prefix, "JSONDecodeError">>) ELSE Raise("ValueError")

\* [c['name'] for c in <list>]: the exception it raises, or "" when every
\* element is an object with a name.
RECURSIVE NamesError(_)
NamesError(s) ==
    IF s = <<>> THEN ""
    ELSE IF Head(s).t # "obj" THEN "TypeError"
    ELSE IF "name" \notin DOMAIN Head(s).v THEN "KeyError"
    ELSE NamesError(Tail(s))

Names(s) == {s[k].v["name"] : k \in DOMAIN s}

\* The same for any JSON value in the place of the list: an empty dict or
\* string has nothing to iterate over, anything else but a list has no
\* element with a name.
IterNamesError(colls) ==
    IF colls.t = "arr" THEN NamesError(colls.v)
    ELSE IF colls.t \in {"obj", "str"} /\ JLen(colls) = 0 THEN ""
    ELSE "TypeError"
NamesOf(colls) == IF colls.t = "arr" THEN Names(colls.v) ELSE {}

\* A mutant of QdrantDetails: whatever the collection answers, the details
\* are reported as unavailable.
QdrantDetailsUnavailable(env) ==
    IF env.details.kind = "interrupt" THEN KeyboardInterrupt
    ELSE Ret(TRUE, <<"Qdrant OK - collection details unavailable">>)

\* test_qdrant_health: env.health, env.collections and env.details are what
\* the three GETs come to.
QdrantDetails(env) ==
    LET d == env.details IN
    IF d.kind = "interrupt" THEN KeyboardInterrupt
    ELSE IF d.kind = "error" THEN Ret(FALSE, <<"Qdrant connection failed: ", d.err>>)
    ELSE IF d.status = 200 THEN
        IF d.body.t = "bad" THEN JsonDecodeError(env.modern, "Qdrant connection failed: ")
        ELSE IF d.body.t # "obj" THEN Raise("AttributeError")
        ELSE LET result == JGet(d.body, "result", JEmpty) IN
             IF result.t # "obj" THEN Raise("AttributeError")
             ELSE Ret(TRUE, <<"Qdrant OK - ", JFmt(JGet(result, "points_count", JNum(0))),
                              " points, ", JFmt(JGet(result, "vectors_count", JNum(0))),
                              " vectors">>)
    ELSE Ret(TRUE, <<"Qdrant OK - collection details unavailable">>)

QdrantCollections(env) ==
    LET c == env.collections IN
    IF c.kind = "interrupt" THEN KeyboardInterrupt
    ELSE IF c.kind = "error" THEN Ret(FALSE, <<"Qdrant connection failed: ", c.err>>)
    ELSE IF c.status # 200
        THEN Ret(FALSE, <<"Failed to get collections: HTTP ", ToString(c.status)>>)
    ELSE IF c.body.t = "bad" THEN JsonDecodeError(env.modern, "Qdrant connection failed: ")
    ELSE IF c.body.t # "obj" THEN Raise("AttributeError")
    ELSE LET result == JGet(c.body, "result", JEmpty) IN
         IF result.t # "obj" THEN Raise("AttributeError")
         ELSE LET colls == JGet(result, "collections", JArr(<<>>)) IN
              IF IterNamesError(colls) # "" THEN Raise(IterNamesError(colls))
              ELSE IF JStr("ondc_products") \notin NamesOf(colls)
                  THEN Ret(FALSE, <<"ondc_products collection not found">>)
              ELSE QdrantDetails(env)

test_qdrant_health(env) ==
    LET h == env.health IN
    IF h.kind = "interrupt" THEN KeyboardInterrupt
    ELSE IF h.kind = "error" THEN Ret(FALSE, <<"Qdrant connection failed: ", h.err>>)
    ELSE IF h.status # 200
        THEN Ret(FALSE, <<"Qdrant health check failed: HTTP ", ToString(h.status)>>)
    ELSE QdrantCollections(env)

\* test_vector_search: env.search is what the POST comes to.
test_vector_search(env) ==
    LET r == env.search IN
    IF r.kind = "interrupt" THEN KeyboardInterrupt
    ELSE IF r.kind = "error" THEN Ret(FALSE, <<"Vector search test failed: ", r.err>>)
    ELSE IF r.status = 200 THEN
        IF r.body.t = "bad" THEN JsonDecodeError(env.modern, "Vector search test failed: ")
        ELSE IF r.body.t # "obj" THEN Raise("AttributeError")
        ELSE LET results == JGet(r.body, "result", JArr(<<>>)) IN
             IF results.t \notin {"arr", "obj", "str"} THEN Raise("TypeError")
             ELSE Ret(TRUE, <<"Vector search OK - ", ToString(JLen(results)),
                              " results returned">>)
    ELSE Ret(FALSE, <<"Vector search failed: HTTP ", ToString(r.status)>>)

\* test_himira_api: env.api is what the GET of the backend search comes to.
test_himira_api(env) ==
    LET r == env.api IN
    IF r.kind = "interrupt" THEN KeyboardInterrupt
    ELSE IF r.kind = "error" THEN Ret(FALSE, <<"Himira API test failed: ", r.err>>)
    ELSE IF r.status = 200 THEN
        IF r.body.t = "bad" THEN JsonDecodeError(env.modern, "Himira API test failed: ")
        ELSE IF r.body.t # "obj" THEN Raise("AttributeError")
        ELSE LET products == JGet(r.body, "data", JArr(<<>>)) IN
             IF products.t \notin {"arr", "obj", "str"} THEN Raise("TypeError")
             ELSE Ret(TRUE, <<"Himira API OK - ", ToString(JLen(products)),
                              " products found for 'laptop'">>)
    ELSE Ret(FALSE, <<"Himira API failed: HTTP ", ToString(r.status)>>)

\* ------------------------------------------------------------------------
\* Text.  A command's output (stdout + stderr) and a file's content are
\* sequences of lines.  `needle in text` is Contains; the substrings the
\* checks look for are listed, line by line, in Substrings.
Substrings ==
    { <<"qdrant", "himira-qdrant">>, <<"etl", "himira-etl">>,
      <<"mcp-server", "ondc-mcp-server">>,
      <<"MCP Server initialized successfully", "INFO MCP Server initialized successfully">>,
      <<"Up", "Up 2 hours">>,
      <<"extracted", "extracted 5 products">>,
      <<"threshold: 0.3", "Vector search threshold: 0.3">>,
      <<"threshold:", "Vector search threshold: 0.3">>,
      <<"threshold:", "Vector search threshold: 0.5">>,
      <<"your-api-key", "API_KEY=your-api-key">>,
      <<"your_api_key_here", "API_KEY=your_api_key_here">>,
      <<"your_gemini_api_key_here", "GEMINI_API_KEY=your_gemini_api_key_here">> }

Within(needle, line) == needle = line \/ <<needle, line>> \in Substrings

Contains(text, needle) == \E k \in DOMAIN text : Within(needle, text[k])

\* str.lower(), line by line.
Lower(text) ==
    [k \in DOMAIN text |->
        IF text[k] = "Extraction completed" THEN "extraction completed" ELSE text[k]]

\* str.split() of a line of df output.
Fields(line) ==
    IF line = "/dev/sda1 50G 20G 30G 40% /"
        THEN <<"/dev/sda1", "50G", "20G", "30G", "40%", "/">>
    ELSE IF line = "Filesystem Size Used Avail Use% Mounted on"
        THEN <<"Filesystem", "Size", "Used", "Avail", "Use%", "Mounted", "on">>
    ELSE IF line = "" THEN <<>>
    ELSE <<line>>

\* What subprocess.run comes to: the command completes with an exit code
\* and output, exceeds the timeout, cannot be started, or a
\* KeyboardInterrupt is delivered while it runs.
Completed(rc, out) == [kind |-> "completed", rc |-> rc, out |-> out]
TimedOut == [kind |-> "timeout", rc |-> 0, out |-> <<>>]
OSError == [kind |-> "oserror", rc |-> 0, out |-> <<"[Errno 2] No such file or directory">>]
CmdInterrupt == [kind |-> "interrupt", rc |-> 0, out |-> <<>>]

\* A mutant of run_command: a command that completes counts as a success
\* whatever its exit code.
run_command_any_status(c) ==
    IF c.kind = "completed"
        THEN [interrupted |-> FALSE, success |-> TRUE, output |-> c.out]
    ELSE IF c.kind = "interrupt"
        THEN [interrupted |-> TRUE, success |-> FALSE, output |-> <<>>]
    ELSE [interrupted |-> FALSE, success |-> FALSE, output |-> <<"Command timed out">>]

\* run_command: (success, output); a KeyboardInterrupt is not an Exception
\* and passes through both handlers.
run_command(c) ==
    IF c.kind = "completed"
        THEN [interrupted |-> FALSE, success |-> (c.rc = 0), output |-> c.out]
    ELSE IF c.kind = "timeout"
        THEN [interrupted |-> FALSE, success |-> FALSE, output |-> <<"Command timed out">>]
    ELSE IF c.kind = "oserror"
        THEN [interrupted |-> FALSE, success |-> FALSE, output |-> c.out]
    ELSE [interrupted |-> TRUE, success |-> FALSE, output |-> <<>>]

required_services == <<"qdrant", "etl", "mcp-server">>
expected_containers == <<"himira-qdrant", "himira-etl", "ondc-mcp-server">>

InSeq(e, s) == \E k \in DOMAIN s : s[k] = e

\* test_docker_services
test_docker_services(env) ==
    IF ~env.compose_file THEN Ret(FALSE, <<"docker-compose.unified.yml not found">>)
    ELSE LET ps == run_command(env.compose_ps) IN
    IF ps.interrupted THEN KeyboardInterrupt
    ELSE IF ~ps.success THEN Ret(FALSE, <<"Failed to check services: ">> \o ps.output)
    ELSE LET absent == SelectSeq(required_services, LAMBDA s : ~Contains(ps.output, s)) IN
    IF absent # <<>>
        THEN Ret(FALSE, <<"Service ", Head(absent), " not found in docker-compose output">>)
    ELSE LET run == run_command(env.docker_ps) IN
    IF run.interrupted THEN KeyboardInterrupt
    ELSE IF ~run.success
        THEN Ret(FALSE, <<"Failed to check running containers: ">> \o run.output)
    ELSE LET missing == SelectSeq(expected_containers, LAMBDA c : ~InSeq(c, run.output)) IN
    IF missing # <<>> THEN Ret(FALSE, <<"Containers not running: ">> \o missing)
    ELSE Ret(TRUE, <<"All Docker services running: ">> \o expected_containers)

success_indicators ==
    <<"MCP Server initialized successfully", "Vector search: Enabled",
      "Vector search auto-initialized: True">>

\* A mutant of test_mcp_server_logs: every marker has to be found.
test_mcp_server_logs_all(env) ==
    LET r == run_command(env.logs) IN
    IF r.interrupted THEN KeyboardInterrupt
    ELSE IF ~r.success THEN Ret(FALSE, <<"Failed to get MCP server logs: ">> \o r.output)
    ELSE IF \A k \in DOMAIN success_indicators : Contains(r.output, success_indicators[k])
        THEN Ret(TRUE, <<"MCP Server OK - Found: ", "3", "/3 success indicators">>)
    ELSE Ret(FALSE, <<"MCP Server may not be properly initialized">>)

\* test_mcp_server_logs
test_mcp_server_logs(env) ==
    LET r == run_command(env.logs) IN
    IF r.interrupted THEN KeyboardInterrupt
    ELSE IF ~r.success THEN Ret(FALSE, <<"Failed to get MCP server logs: ">> \o r.output)
    ELSE LET found_indicators ==
                 SelectSeq(success_indicators, LAMBDA s : Contains(r.output, s)) IN
    IF found_indicators # <<>>
        THEN Ret(TRUE, <<"MCP Server OK - Found: ", ToString(Len(found_indicators)),
                         "/3 success indicators">>)
    ELSE Ret(FALSE, <<"MCP Server may not be properly initialized">>)

\* test_etl_functionality
test_etl_functionality(env) ==
    LET st == run_command(env.status) IN
    IF st.interrupted THEN KeyboardInterrupt
    ELSE IF ~st.success THEN Ret(FALSE, <<"Failed to check ETL container: ">> \o st.output)
    ELSE IF ~Contains(st.output, "Up") THEN Ret(FALSE, <<"ETL container is not running">>)
    ELSE LET lg == run_command(env.logs) IN
    IF lg.interrupted THEN KeyboardInterrupt
    ELSE IF ~lg.success THEN Ret(FALSE, <<"Failed to get ETL logs: ">> \o lg.output)
    ELSE IF Contains(Lower(lg.output), "extraction completed")
            \/ Contains(Lower(lg.output), "extracted")
        THEN Ret(TRUE, <<"ETL pipeline appears to be working">>)
    ELSE Ret(TRUE, <<"ETL container running - logs may not show recent activity">>)

config_files == <<"ondc-shopping-mcp/.env", "himira_vector_db/.env">>
placeholder_indicators ==
    <<"your_api_key_here", "your-api-key", "your_gemini_api_key_here">>

\* The loop over config_files of test_environment_config from position k:
\* env.files[k] is [exists, read, content], read being what open/read of the
\* file comes to ("ok", "error" or "interrupt").
RECURSIVE ScanConfig(_, _)
ScanConfig(env, k) ==
    IF k > Len(config_files) THEN Ret(TRUE, <<"Environment configuration appears complete">>)
    ELSE LET f == env.files[k]
             hit == SelectSeq(placeholder_indicators, LAMBDA p : Contains(f.content, p)) IN
    IF f.read = "interrupt" THEN KeyboardInterrupt
    ELSE IF f.read = "error"
        THEN Ret(FALSE, <<"Failed to read ", config_files[k], ": ", "PermissionError">>)
    ELSE IF hit # <<>>
        THEN Ret(FALSE, <<"Found placeholder '", Head(hit), "' in ", config_files[k]>>)
    ELSE ScanConfig(env, k + 1)

\* test_environment_config
test_environment_config(env) ==
    LET missing_files ==
            SelectSeq(config_files,
                      LAMBDA c : \E k \in DOMAIN config_files :
                                    config_files[k] = c /\ ~env.files[k].exists) IN
    IF missing_files # <<>> THEN Ret(FALSE, <<"Missing config files: ">> \o missing_files)
    ELSE ScanConfig(env, 1)

required_ports == <<"Qdrant HTTP (6333)", "Qdrant gRPC (6334)">>

\* A mutant of test_ports_accessibility: a port counts as accessible when
\* its GET raises.
test_ports_accessibility_lenient(env) ==
    LET idx == SelectSeq(<<1, 2>>,
                   LAMBDA k : env.ports[k].kind # "response" \/ env.ports[k].status = 200)
        accessible_ports == [k \in DOMAIN idx |-> required_ports[idx[k]]] IN
    IF accessible_ports # <<>> THEN Ret(TRUE, <<"Accessible ports: ">> \o accessible_ports)
    ELSE Ret(FALSE, <<"No required ports are accessible">>)

\* test_ports_accessibility: env.ports[k] is what the GET of port k's /health
\* comes to.  The bare except around the GET catches everything, a
\* KeyboardInterrupt included, and goes on with the next port.
test_ports_accessibility(env) ==
    LET idx == SelectSeq(<<1, 2>>,
                   LAMBDA k : env.ports[k].kind = "response" /\ env.ports[k].status = 200)
        accessible_ports == [k \in DOMAIN idx |-> required_ports[idx[k]]] IN
    IF accessible_ports # <<>> THEN Ret(TRUE, <<"Accessible ports: ">> \o accessible_ports)
    ELSE Ret(FALSE, <<"No required ports are accessible">>)

\* output.strip().split('\n')
Lines(text) == IF text = <<>> THEN <<"">> ELSE text

\* test_disk_space: env.parse_interrupt says that a KeyboardInterrupt is
\* delivered while the second line is split, inside the bare except.
test_disk_space(env) ==
    LET r == run_command(env.df) IN
    IF r.interrupted THEN KeyboardInterrupt
    ELSE IF ~r.success THEN Ret(FALSE, <<"Failed to check disk space: ">> \o r.output)
    ELSE LET lines == Lines(r.output) IN
    IF Len(lines) < 2 THEN Ret(FALSE, <<"Unexpected df output format">>)
    ELSE IF env.parse_interrupt THEN Ret(TRUE, <<"Disk space check completed">>)
    ELSE LET fields == Fields(lines[2])
             available == IF Len(fields) > 3 THEN fields[4] ELSE "Unknown" IN
         Ret(TRUE, <<"Available disk space: ", available>>)

\* test_system_resources
test_system_resources(env) ==
    LET r == run_command(env.stats) IN
    IF r.interrupted THEN KeyboardInterrupt
    ELSE IF r.success /\ r.output # <<>>
        THEN Ret(TRUE, <<"Docker stats available - ", ToString(Len(r.output) - 1),
                         " containers monitored">>)
    ELSE Ret(TRUE, <<"System resources check completed">>)

\* Whether the check catches a KeyboardInterrupt that is delivered while it
\* runs (the bare excepts of test_ports_accessibility and test_disk_space).
SwallowsInterrupt(name, env) ==
    \/ name = "Port Accessibility" /\ \E k \in DOMAIN env.ports : env.ports[k].kind = "interrupt"
    \/ /\ name = "Disk Space"
       /\ env.parse_interrupt
       /\ test_disk_space(env) = Ret(TRUE, <<"Disk space check completed">>)

\* ------------------------------------------------------------------------
\* src/test_system.py.  Its check functions return a bool; the message of a
\* Ret is the lines the check prints.  Each of them catches Exception around
\* its whole body.

\* The exception x[key] raises for a string key, or "".
SubError(j, key) ==
    IF j.t = "obj" THEN (IF key \in DOMAIN j.v THEN "" ELSE "KeyError") ELSE "TypeError"

\* The first exception x[k1][k2] raises, or "".
PathError(j, k1, k2) ==
    IF SubError(j, k1) # "" THEN SubError(j, k1) ELSE SubError(j.v[k1], k2)

ts_QdrantFailed(out, e) == Ret(FALSE, out \o <<"Qdrant test failed: ", e>>)

\* test_qdrant: the vector search, tried when the collection has points.
ts_QdrantSearch(env, out) ==
    LET r == env.search IN
    IF r.kind = "interrupt" THEN KeyboardInterrupt
    ELSE IF r.kind = "error" THEN ts_QdrantFailed(out, r.err)
    ELSE IF r.status # 200
        THEN Ret(TRUE, out \o <<"Vector search test failed: HTTP ", ToString(r.status)>>)
    ELSE IF r.body.t = "bad" THEN ts_QdrantFailed(out, "JSONDecodeError")
    ELSE IF SubError(r.body, "result") # "" THEN ts_QdrantFailed(out, SubError(r.body, "result"))
    ELSE IF r.body.v["result"].t \notin {"arr", "obj", "str"} THEN ts_QdrantFailed(out, "TypeError")
    ELSE Ret(TRUE, out \o <<"Vector search working - ",
                            ToString(JLen(r.body.v["result"])), " results">>)

\* test_qdrant: the collection details.
ts_QdrantDetails(env, out) ==
    LET d == env.details IN
    IF d.kind = "interrupt" THEN KeyboardInterrupt
    ELSE IF d.kind = "error" THEN ts_QdrantFailed(out, d.err)
    ELSE IF d.status # 200 THEN Ret(TRUE, out \o <<"Could not get collection details">>)
    ELSE IF d.body.t = "bad" THEN ts_QdrantFailed(out, "JSONDecodeError")
    ELSE IF PathError(d.body, "result", "points_count") # ""
        THEN ts_QdrantFailed(out, PathError(d.body, "result", "points_count"))
    ELSE IF PathError(d.body, "result", "vectors_count") # ""
        THEN ts_QdrantFailed(out, PathError(d.body, "result", "vectors_count"))
    ELSE LET points_count == d.body.v["result"].v["points_count"]
             vectors_count == d.body.v["result"].v["vectors_count"]
             shown == out \o <<"ONDC Products Collection: ", JFmt(points_count), " points, ",
                               JFmt(vectors_count), " vectors">> IN
    IF points_count.t # "num" THEN ts_QdrantFailed(shown, "TypeError")
    ELSE IF points_count.v > 0 THEN ts_QdrantSearch(env, shown)
    ELSE Ret(TRUE, shown \o <<"No products in vector database - run ETL to populate">>)

\* test_qdrant: the list of collections.
ts_QdrantCollections(env, out) ==
    LET c == env.collections IN
    IF c.kind = "interrupt" THEN KeyboardInterrupt
    ELSE IF c.kind = "error" THEN ts_QdrantFailed(out, c.err)
    ELSE IF c.status # 200
        THEN Ret(TRUE, out \o <<"Could not get collections: HTTP ", ToString(c.status)>>)
    ELSE IF c.body.t = "bad" THEN ts_QdrantFailed(out, "JSONDecodeError")
    ELSE IF PathError(c.body, "result", "collections") # ""
        THEN ts_QdrantFailed(out, PathError(c.body, "result", "collections"))
    ELSE LET colls == c.body.v["result"].v["collections"] IN
    IF IterNamesError(colls) # "" THEN ts_QdrantFailed(out, IterNamesError(colls))
    ELSE IF JStr("ondc_products") \in NamesOf(colls)
        THEN ts_QdrantDetails(env, out \o <<"Collections found">>)
    ELSE Ret(TRUE, out \o <<"Collections found", "ondc_products collection not found">>)

\* test_qdrant
ts_test_qdrant(env) ==
    LET h == env.health IN
    IF h.kind = "interrupt" THEN KeyboardInterrupt
    ELSE IF h.kind = "error" THEN ts_QdrantFailed(<<>>, h.err)
    ELSE IF h.status # 200
        THEN Ret(FALSE, <<"Qdrant health check failed: HTTP ", ToString(h.status)>>)
    ELSE ts_QdrantCollections(env, <<"Qdrant health check passed">>)

ts_ApiFailed(out, e) == Ret(FALSE, out \o <<"Backend API test failed: ", e>>)

\* test_himira_api of test_system.py
ts_test_himira_api(env) ==
    LET r == env.api
        out == <<"Backend API connection successful">> IN
    IF r.kind = "interrupt" THEN KeyboardInterrupt
    ELSE IF r.kind = "error" THEN ts_ApiFailed(<<>>, r.err)
    ELSE IF r.status # 200
        THEN Ret(FALSE, <<"Backend API returned status ", ToString(r.status)>>)
    ELSE IF r.body.t = "bad" THEN ts_ApiFailed(out, "JSONDecodeError")
    ELSE IF r.body.t # "obj" THEN ts_ApiFailed(out, "AttributeError")
    ELSE LET products == JGet(r.body, "data", JArr(<<>>)) IN
    IF products.t \notin {"arr", "obj", "str"} THEN ts_ApiFailed(out, "TypeError")
    ELSE LET found == out \o <<"Found ", ToString(JLen(products)), " products for 'laptop'">> IN
    IF JLen(products) = 0 THEN Ret(TRUE, found)
    ELSE IF products.t = "obj" THEN ts_ApiFailed(found, "KeyError")
    ELSE IF products.t = "str" \/ products.v[1].t # "obj" THEN ts_ApiFailed(found, "AttributeError")
    ELSE Ret(TRUE, found \o <<"  - Sample product: ",
                              JFmt(JGet(products.v[1], "name", JStr("N/A")))>>)

\* line.split('\t')[0] of a line of docker ps --format '{{.Names}}\t{{.Status}}'.
TabHead(line) ==
    IF \E k \in DOMAIN expected_containers : line = expected_containers[k] \o "\tUp 2 hours"
        THEN expected_containers[CHOOSE k \in DOMAIN expected_containers :
                                     line = expected_containers[k] \o "\tUp 2 hours"]
        ELSE line

\* test_docker_services of test_system.py: env.docker_ps is what
\* subprocess.run(["docker", "ps", ...]) comes to.
ts_test_docker_services(env) ==
    LET c == env.docker_ps IN
    IF c.kind = "interrupt" THEN KeyboardInterrupt
    ELSE IF c.kind = "timeout"
        THEN Ret(FALSE, <<"Docker services test failed: ", "TimeoutExpired">>)
    ELSE IF c.kind = "oserror" THEN Ret(FALSE, <<"Docker services test failed: ">> \o c.out)
    ELSE IF c.rc # 0 THEN Ret(FALSE, <<"Docker command failed: ">> \o c.out)
    ELSE LET names == [k \in DOMAIN c.out |-> TabHead(c.out[k])]
             found_services == SelectSeq(names, LAMBDA n : InSeq(n, expected_containers))
             missing_services ==
                 SelectSeq(expected_containers, LAMBDA e : ~InSeq(e, found_services)) IN
    IF missing_services # <<>>
        THEN Ret(Len(found_services) > 0,
                 found_services \o <<"Missing services: ">> \o missing_services)
    ELSE Ret(TRUE, found_services \o <<"All expected Docker services are running">>)

\* test_mcp_server: env.logs is what subprocess.run(["docker", "logs", ...])
\* comes to.
ts_test_mcp_server(env) ==
    LET c == env.logs IN
    IF c.kind = "interrupt" THEN KeyboardInterrupt
    ELSE IF c.kind = "timeout" THEN Ret(FALSE, <<"MCP Server test failed: ", "TimeoutExpired">>)
    ELSE IF c.kind = "oserror" THEN Ret(FALSE, <<"MCP Server test failed: ">> \o c.out)
    ELSE IF c.rc # 0 THEN Ret(FALSE, <<"Could not get MCP server logs: ">> \o c.out)
    ELSE LET found_indicators == SelectSeq(success_indicators, LAMBDA s : Contains(c.out, s))
             threshold_line == SelectSeq(c.out, LAMBDA l : Within("threshold:", l))
             out == <<"MCP Server initialized - Found ", ToString(Len(found_indicators)),
                      "/3 success indicators">> \o found_indicators IN
    IF found_indicators = <<>>
        THEN Ret(FALSE, <<"MCP Server may still be initializing - no success indicators found">>)
    ELSE IF Contains(c.out, "threshold: 0.3")
        THEN Ret(TRUE, out \o <<"Vector search threshold properly configured (0.3)">>)
    ELSE IF Contains(c.out, "threshold:")
        THEN Ret(TRUE, out \o <<"Vector search threshold: ", Head(threshold_line)>>)
    ELSE Ret(TRUE, out)

\* main of test_system.py: the registration list.
ts_tests == <<"Docker Services", "Qdrant Database", "Himira API", "MCP Server">>

ts_test_func(name, env) ==
    CASE name = "Docker Services" -> ts_test_docker_services(env)
      [] name = "Qdrant Database" -> ts_test_qdrant(env)
      [] name = "Himira API" -> ts_test_himira_api(env)
      [] name = "MCP Server" -> ts_test_mcp_server(env)

\* ------------------------------------------------------------------------
\* run_validation_suite: the registration list.
tests ==
    <<"Docker Services", "Qdrant Database", "Vector Search", "Himira API", "MCP Server",
      "ETL Pipeline", "Environment Config", "Port Accessibility", "Disk Space",
      "System Resources">>

\* test_func() of the registered check `name`.
test_func(name, env) ==
    CASE name = "Docker Services" -> test_docker_services(env)
      [] name = "Qdrant Database" -> test_qdrant_health(env)
      [] name = "Vector Search" -> test_vector_search(env)
      [] name = "Himira API" -> test_himira_api(env)
      [] name = "MCP Server" -> test_mcp_server_logs(env)
      [] name = "ETL Pipeline" -> test_etl_functionality(env)
      [] name = "Environment Config" -> test_environment_config(env)
      [] name = "Port Accessibility" -> test_ports_accessibility(env)
      [] name = "Disk Space" -> test_disk_space(env)
      [] name = "System Resources" -> test_system_resources(env)

\* Response bodies of the services under test.
CollectionsBody(names) ==
    JObj([result |-> JObj([collections |->
        JArr([k \in DOMAIN names |-> JObj([name |-> JStr(names[k])])])])])
NamelessBody == JObj([result |-> JObj([collections |-> JArr(<<JEmpty>>)])])
DetailsBody(n) == JObj([result |-> JObj([points_count |-> JNum(n), vectors_count |-> JNum(n)])])
SearchBody(n) == JObj([result |-> JArr([k \in 1..n |-> JObj([id |-> JNum(k)])])])
ApiBody(n) == JObj([data |-> JArr([k \in 1..n |-> JObj([name |-> JStr("laptop")])])])

Refused == HttpError("Connection refused")

\* The situations of the system under test that a run of the suite meets,
\* check by check: the services healthy, and the failures of each probe.
DockerEnvs ==
    { [compose_file |-> f, compose_ps |-> Completed(0, expected_containers), docker_ps |-> d] :
        f \in BOOLEAN,
        d \in {Completed(0, expected_containers), TimedOut, CmdInterrupt} }
QdrantEnvs ==
    { [health |-> h, collections |-> c, details |-> Resp(200, DetailsBody(MaxPoints)),
       modern |-> m] :
        m \in BOOLEAN,
        h \in {Resp(200, JEmpty), Refused, HttpInterrupt},
        c \in {Resp(200, CollectionsBody(<<"ondc_products">>)), Resp(200, NamelessBody),
               Resp(200, JBad), Resp(404, JEmpty)} }
SearchEnvs ==
    { [search |-> r, modern |-> m] :
        m \in BOOLEAN,
        r \in {Resp(200, SearchBody(MaxPoints)), Resp(404, JEmpty), Refused, HttpInterrupt} }
ApiEnvs ==
    { [api |-> r, modern |-> m] :
        m \in BOOLEAN,
        r \in {Resp(200, ApiBody(MaxPoints)), Resp(200, JArr(<<>>)), Resp(503, JEmpty),
               HttpInterrupt} }
McpEnvs ==
    { [logs |-> l] :
        l \in {Completed(0, success_indicators), Completed(0, <<"Starting server">>),
               Completed(1, <<"No such container: ondc-mcp-server">>), CmdInterrupt} }
EtlEnvs ==
    { [status |-> st, logs |-> Completed(0, <<"Extraction completed">>)] :
        st \in {Completed(0, <<"Up 2 hours">>), Completed(0, <<>>), CmdInterrupt} }
GoodFile == [exists |-> TRUE, read |-> "ok", content |-> <<"API_KEY=k3y">>]
ConfigEnvs ==
    { [files |-> <<GoodFile, f>>] :
        f \in {GoodFile, [exists |-> FALSE, read |-> "error", content |-> <<>>],
               [exists |-> TRUE, read |-> "ok", content |-> <<"API_KEY=your-api-key">>],
               [exists |-> TRUE, read |-> "interrupt", content |-> <<>>]} }
PortEnvs ==
    { [ports |-> <<a, b>>] :
        a \in {Resp(200, JEmpty), Refused, HttpInterrupt},
        b \in {Resp(200, JEmpty), Refused, HttpError("Read timed out")} }
DiskEnvs ==
    { [df |-> d, parse_interrupt |-> q] :
        d \in {Completed(0, <<"Filesystem Size Used Avail Use% Mounted on",
                              "/dev/sda1 50G 20G 30G 40% /">>),
               Completed(1, <<"df: .: No such file or directory">>), CmdInterrupt},
        q \in BOOLEAN }
ResourceEnvs ==
    { [stats |-> st] :
        st \in {Completed(0, <<"CONTAINER CPU % MEM USAGE", "himira-qdrant 0.5% 100MiB">>),
                OSError, CmdInterrupt} }

ts_DockerEnvs ==
    { [docker_ps |-> d] :
        d \in {Completed(0, [k \in DOMAIN expected_containers |->
                                expected_containers[k] \o "\tUp 2 hours"]),
               Completed(0, <<"himira-qdrant\tUp 2 hours">>),
               Completed(0, <<>>),
               Completed(1, <<"Cannot connect to the Docker daemon">>),
               TimedOut, CmdInterrupt} }
ts_QdrantEnvs ==
    { [health |-> h, collections |-> c, details |-> d, search |-> r] :
        h \in {Resp(200, JEmpty), Resp(503, JEmpty), Refused, HttpInterrupt},
        c \in {Resp(200, CollectionsBody(<<"ondc_products">>)), Resp(200, NamelessBody),
               Resp(404, JEmpty)},
        d \in {Resp(200, DetailsBody(0)), Resp(200, DetailsBody(MaxPoints)), Resp(404, JEmpty)},
        r \in {Resp(200, SearchBody(MaxPoints)), Refused} }
ts_ApiEnvs ==
    { [api |-> r] :
        r \in {Resp(200, ApiBody(MaxPoints)), Resp(200, JArr(<<>>)), Resp(200, JBad),
               Resp(503, JEmpty), Refused, HttpInterrupt} }
ts_McpEnvs ==
    { [logs |-> l] :
        l \in {Completed(0, success_indicators \o <<"Vector search threshold: 0.3">>),
               Completed(0, <<"Vector search: Enabled", "Vector search threshold: 0.5">>),
               Completed(0, <<"Starting server">>),
               Completed(1, <<"No such container: ondc-mcp-server">>),
               TimedOut, CmdInterrupt} }

ts_SuiteEnvs(name) ==
    CASE name = "Docker Services" -> ts_DockerEnvs
      [] name = "Qdrant Database" -> ts_QdrantEnvs
      [] name = "Himira API" -> ts_ApiEnvs
      [] name = "MCP Server" -> ts_McpEnvs

SuiteEnvs(name) ==
    CASE name = "Docker Services" -> DockerEnvs
      [] name = "Qdrant Database" -> QdrantEnvs
      [] name = "Vector Search" -> SearchEnvs
      [] name = "Himira API" -> ApiEnvs
      [] name = "MCP Server" -> McpEnvs
      [] name = "ETL Pipeline" -> EtlEnvs
      [] name = "Environment Config" -> ConfigEnvs
      [] name = "Port Accessibility" -> PortEnvs
      [] name = "Disk Space" -> DiskEnvs
      [] name = "System Resources" -> ResourceEnvs

\* ------------------------------------------------------------------------
\* results[test_name] = value on a dict kept in insertion order: the value
\* of an existing key is replaced in place, a new key is added at the end.
DictSet(d, name, value) ==
    IF \E k \in DOMAIN d : d[k].name = name
        THEN [k \in DOMAIN d |-> IF d[k].name = name THEN value ELSE d[k]]
        ELSE Append(d, value)

\* The record one iteration of the loop stores for the check `name`:
\* the returned pair, or the handler's record when test_func raised.
ResultOf(name, out) ==
    IF out.kind = "return"
        THEN [name |-> name, passed |-> out.passed, message |-> out.message]
        ELSE [name |-> name, passed |-> FALSE,
              message |-> <<"Unexpected error: ">> \o out.message]

\* StoreResult with a handler that logs the error and stores nothing.
StoreResultDropsRaise(res, name, out) ==
    IF out.kind = "return" THEN DictSet(res, name, ResultOf(name, out)) ELSE res

\* results after the iteration of the check `name`: both the try body and
\* the handler assign results[test_name].
StoreResult(res, name, out) == DictSet(res, name, ResultOf(name, out))

\* What one iteration adds to passed_tests.
PassedIncrement(out) == IF out.kind = "return" /\ out.passed THEN 1 ELSE 0

\* NextIndex with a handler that leaves the loop.
NextIndexStopsOnRaise(k, out) == IF out.kind = "raise" THEN Len(tests) + 1 ELSE k + 1

\* NextIndex with a loop that runs a check again until it passes.
NextIndexRetries(k, out) == IF out.kind = "return" /\ out.passed THEN k + 1 ELSE k

\* Where the loop goes after the check at position k came to `out`.
NextIndex(k, out) == k + 1

\* SuccessRate with floor division (passed_tests // total_tests).
SuccessRateFloorDiv(passed, total) == (passed \div total) * 100

\* (passed_tests / total_tests) * 100.  With ten checks every quotient
\* p / 10 * 100 is the whole number 10 * p in binary64, so the rate is kept
\* as an integer.
SuccessRate(passed, total) == (passed * 100) \div total

\* The summary dict (duration_seconds and timestamp, which no check reads,
\* are left out).
Summary(total, passed, res) ==
    [total_tests |-> total, passed_tests |-> passed, failed_tests |-> total - passed,
     success_rate |-> SuccessRate(passed, total), results |-> res]

NoSummary ==
    [total_tests |-> 0, passed_tests |-> 0, failed_tests |-> 0, success_rate |-> 0,
     results |-> <<>>]

\* FailedOf that stops at the first failed result.
FailedOfFirst(res) ==
    IF SelectSeq(res, LAMBDA r : ~r.passed) = <<>> THEN <<>>
    ELSE <<Head(SelectSeq(res, LAMBDA r : ~r.passed))>>

\* print_summary: the verdict line it logs and the "Critical Issues Found"
\* lines it prints, one (test_name, message) per line.
FailedOf(res) == SelectSeq(res, LAMBDA r : ~r.passed)
IssueLines(res) == [k \in DOMAIN FailedOf(res) |->
                       [name |-> FailedOf(res)[k].name, message |-> FailedOf(res)[k].message]]
print_summary(summary) ==
    IF summary.success_rate >= 90 THEN [verdict |-> "PASSED", issues |-> <<>>]
    ELSE IF summary.success_rate >= 70 THEN [verdict |-> "warnings", issues |-> <<>>]
    ELSE [verdict |-> "FAILED", issues |-> IssueLines(summary.results)]

NothingPrinted == [verdict |-> "", issues |-> <<>>]

\* ExitStatus with strict comparisons (> 90, > 70).
ExitStatusStrict(success_rate) ==
    IF success_rate > 90 THEN 0 ELSE IF success_rate > 70 THEN 1 ELSE 2

\* main: the status main passes to sys.exit after the report is saved.
ExitStatus(success_rate) ==
    IF success_rate >= 90 THEN 0 ELSE IF success_rate >= 70 THEN 1 ELSE 2

\* json_dump of a summary whose failed_tests holds the total.
JsonDumpWrongFailed(summary) ==
    [total_tests |-> ToString(summary.total_tests),
     passed_tests |-> ToString(summary.passed_tests),
     failed_tests |-> ToString(summary.total_tests),
     success_rate |-> ToString(summary.success_rate) \o ".0",
     results |-> [k \in DOMAIN summary.results |->
                    [name |-> summary.results[k].name,
                     passed |-> IF summary.results[k].passed THEN "true" ELSE "false",
                     message |-> summary.results[k].message]]]

\* json.dump(summary, f): numbers and booleans become their JSON text.
FloatRepr(r) == ToString(r) \o ".0"
json_dump(summary) ==
    [total_tests |-> ToString(summary.total_tests),
     passed_tests |-> ToString(summary.passed_tests),
     failed_tests |-> ToString(summary.failed_tests),
     success_rate |-> FloatRepr(summary.success_rate),
     results |-> [k \in DOMAIN summary.results |->
                    [name |-> summary.results[k].name,
                     passed |-> IF summary.results[k].passed THEN "true" ELSE "false",
                     message |-> summary.results[k].message]]]

\* json.load of a report: the JSON text back to numbers and booleans.
ParseInt(text) ==
    IF \E n \in 0..100 : ToString(n) = text
        THEN CHOOSE n \in 0..100 : ToString(n) = text ELSE -1
ParseFloat(text) ==
    IF \E n \in 0..100 : FloatRepr(n) = text
        THEN CHOOSE n \in 0..100 : FloatRepr(n) = text ELSE -1
json_load(doc) ==
    [total_tests |-> ParseInt(doc.total_tests),
     passed_tests |-> ParseInt(doc.passed_tests),
     failed_tests |-> ParseInt(doc.failed_tests),
     success_rate |-> ParseFloat(doc.success_rate),
     results |-> [k \in DOMAIN doc.results |->
                    [name |-> doc.results[k].name,
                     passed |-> (doc.results[k].passed = "true"),
                     message |-> doc.results[k].message]]]

\* validation_report.json: absent, a complete JSON document, or what is left
\* when writing stopped half way (open(..., 'w') has emptied the file).
NoDoc == json_dump(NoSummary)
NoFile == [kind |-> "absent", doc |-> NoDoc]
Partial == [kind |-> "partial", doc |-> NoDoc]
File(doc) == [kind |-> "json", doc |-> doc]

\* WriteFile that does not touch a report that is already there (mode 'x').
WriteFileKeepsOld(old, summary) ==
    IF old.kind = "absent" THEN [kind |-> "json", doc |-> json_dump(summary)] ELSE old

\* with open('validation_report.json', 'w') as f: json.dump(summary, f)
\* when nothing fails: whatever the file held is replaced.
WriteFile(old, summary) == File(json_dump(summary))

\* The report an earlier run left: every check had failed.
OldSummary ==
    Summary(Len(tests), 0,
            [k \in DOMAIN tests |-> [name |-> tests[k], passed |-> FALSE,
                                     message |-> <<"Unexpected error: ", "old">>]])
OldReport == File(json_dump(OldSummary))

\* main of test_system.py: the pair it appends for the check `name`
\* (the check's bool, or False from the handler when test_func raised).
ts_ResultOf(name, out) ==
    [name |-> name, passed |-> (out.kind = "return" /\ out.passed), message |-> <<>>]

\* A mutant of ts_ExitStatus: half of the checks are enough for code 1.
ts_ExitStatusHalf(passed, total) ==
    IF passed = total THEN 0 ELSE IF passed * 100 >= total * 50 THEN 1 ELSE 2

\* main of test_system.py: the code it returns to sys.exit
\* (passed == total, passed >= total * 0.75, otherwise).
ts_ExitStatus(passed, total) ==
    IF passed = total THEN 0 ELSE IF passed * 100 >= total * 75 THEN 1 ELSE 2

\* The status of a python3 process that a KeyboardInterrupt leaves with no
\* handler (test_system.py has none): death by SIGINT, which the shell
\* reports as 130, from Python 3.8 on, and 1 before.
UncaughtInterruptStatus == {1, 130}

\* ------------------------------------------------------------------------
\* Probes and their timeouts.

\* requests raising ReadTimeout (a RequestException) when the timeout= of the
\* request has passed without an answer.
ReadTimeout == HttpError("Read timed out")

\* A mutant of ProbeTimeout: the probes are issued without a timeout.
ProbeWithoutTimeout(name) == 0

\* The timeout, in seconds, that the probes of the check `name` of
\* validate_system.py are issued with (run_command: 30).
ProbeTimeout(name) ==
    CASE name = "Qdrant Database" -> 10
      [] name = "Vector Search" -> 15
      [] name = "Himira API" -> 15
      [] name = "Port Accessibility" -> 5
      [] OTHER -> 30

\* The same for the checks of test_system.py.
ts_ProbeTimeout(name) == IF name = "Himira API" THEN 15 ELSE 10

\* Whether the check gets as far as its GET of the ondc_products collection.
ReachesDetails(env) ==
    /\ env.health.kind = "response" /\ env.health.status = 200
    /\ env.collections.kind = "response" /\ env.collections.status = 200
    /\ env.collections.body.t = "obj"
    /\ JGet(env.collections.body, "result", JEmpty).t = "obj"
    /\ LET colls == JGet(JGet(env.collections.body, "result", JEmpty),
                         "collections", JArr(<<>>)) IN
       IterNamesError(colls) = "" /\ JStr("ondc_products") \in NamesOf(colls)

\* The probes the check `name` of validate_system.py issues in the
\* situation env, in order, as what they come to.
Issued(name, env) ==
    CASE name = "Docker Services" ->
            IF ~env.compose_file THEN <<>>
            ELSE IF run_command(env.compose_ps).success
                    /\ \A k \in DOMAIN required_services :
                          Contains(run_command(env.compose_ps).output, required_services[k])
                THEN <<env.compose_ps, env.docker_ps>>
            ELSE <<env.compose_ps>>
      [] name = "Qdrant Database" ->
            IF ReachesDetails(env) THEN <<env.health, env.collections, env.details>>
            ELSE IF env.health.kind = "response" /\ env.health.status = 200
                THEN <<env.health, env.collections>>
            ELSE <<env.health>>
      [] name = "Vector Search" -> <<env.search>>
      [] name = "Himira API" -> <<env.api>>
      [] name = "MCP Server" -> <<env.logs>>
      [] name = "ETL Pipeline" ->
            IF run_command(env.status).success /\ Contains(run_command(env.status).output, "Up")
                THEN <<env.status, env.logs>>
            ELSE <<env.status>>
      [] name = "Environment Config" -> <<>>
      [] name = "Port Accessibility" -> env.ports
      [] name = "Disk Space" -> <<env.df>>
      [] name = "System Resources" -> <<env.stats>>

\* test_qdrant: whether it gets as far as its GET of the collection, and as
\* far as its POST of the search.
ts_ReachesDetails(env) ==
    /\ env.health.kind = "response" /\ env.health.status = 200
    /\ env.collections.kind = "response" /\ env.collections.status = 200
    /\ env.collections.body.t # "bad"
    /\ PathError(env.collections.body, "result", "collections") = ""
    /\ LET colls == env.collections.body.v["result"].v["collections"] IN
       IterNamesError(colls) = "" /\ JStr("ondc_products") \in NamesOf(colls)

ts_ReachesSearch(env) ==
    /\ ts_ReachesDetails(env)
    /\ env.details.kind = "response" /\ env.details.status = 200
    /\ env.details.body.t # "bad"
    /\ PathError(env.details.body, "result", "points_count") = ""
    /\ PathError(env.details.body, "result", "vectors_count") = ""
    /\ env.details.body.v["result"].v["points_count"].t = "num"
    /\ env.details.body.v["result"].v["points_count"].v > 0

\* The probes of a check of test_system.py.
ts_Issued(name, env) ==
    CASE name = "Docker Services" -> <<env.docker_ps>>
      [] name = "Qdrant Database" ->
            IF ts_ReachesSearch(env)
                THEN <<env.health, env.collections, env.details, env.search>>
            ELSE IF ts_ReachesDetails(env) THEN <<env.health, env.collections, env.details>>
            ELSE IF env.health.kind = "response" /\ env.health.status = 200
                THEN <<env.health, env.collections>>
            ELSE <<env.health>>
      [] name = "Himira API" -> <<env.api>>
      [] name = "MCP Server" -> <<env.logs>>

\* A probe that was ended by its timeout: the dependency did not answer.
Silent(p) == p.kind = "timeout" \/ p = ReadTimeout

\* A probe of a dependency that does not answer never returns when it is
\* issued without a timeout, and with it the check and the run.
Hangs(probes, timeout) == timeout = 0 /\ \E k \in DOMAIN probes : Silent(probes[k])

\* Whether every request that the check sends to the local Qdrant ports
\* (6333, 6334) fails with a connection error.
IsQdrantCheck(name) == name \in {"Qdrant Database", "Vector Search", "Port Accessibility"}
QdrantRefused(name, env) ==
    IsQdrantCheck(name) =>
        \A k \in DOMAIN Issued(name, env) : Issued(name, env)[k] = Refused

\* No check function is being called on its own.
NoOut == [kind |-> "none", passed |-> FALSE, message |-> <<>>]
NoCall == [name |-> "", env |-> [none |-> TRUE], out |-> NoOut]

\* ------------------------------------------------------------------------
VARIABLES
    script,        \* the script that runs: "validate_system" or "test_system"
    pc,            \* where main is: "suite", "save", "exit", "done" ("hung": never returns)
    i,             \* position of the check the loop runs next
    results,       \* the results dict of run_validation_suite
    passed_tests,  \* its counter
    summary,       \* the summary it returns
    printed,       \* what print_summary printed
    report,        \* validation_report.json
    exit_code,     \* the status the process exits with (-1 while it runs)
    executed,      \* history: the checks whose test_func was called, in order
    kinds,         \* history: how each of them ended ("return" or "raise")
    sigint,        \* history: where a KeyboardInterrupt was first delivered
    handler,       \* history: which except clause of main ran
    written,       \* history: the report was saved by this run
    stdout,        \* the console: "ok", "ascii" (cannot encode the symbols), "closed"
    qdrant_down,   \* history: every request to the local Qdrant ports was refused
    probe          \* a check function called on its own: [name, env, out]

vars == <<script, pc, i, results, passed_tests, summary, printed, report, exit_code,
          executed, kinds, sigint, handler, written, stdout, qdrant_down, probe>>

Init ==
    /\ script \in {"validate_system", "test_system"}
    /\ pc = "suite"
    /\ i = 1
    /\ results = <<>>
    /\ passed_tests = 0
    /\ summary = NoSummary
    /\ printed = NothingPrinted
    /\ report \in {NoFile, OldReport}
    /\ exit_code = -1
    /\ executed = <<>>
    /\ kinds = <<>>
    /\ sigint = "none"
    /\ handler = "none"
    /\ written = FALSE
    /\ stdout = "ok"
    /\ qdrant_down = TRUE
    /\ probe = NoCall

\* One iteration of the loop of run_validation_suite: the check runs; its
\* pair is stored, or the handler stores a failed record; a KeyboardInterrupt
\* that leaves test_func ends main with status 130.
RunCheck ==
    /\ script = "validate_system"
    /\ UNCHANGED <<script, stdout, probe>>
    /\ pc = "suite"
    /\ i <= Len(tests)
    /\ \E env \in SuiteEnvs(tests[i]) :
        LET name == tests[i]
            out == test_func(name, env) IN
        /\ executed' = Append(executed, name)
        /\ qdrant_down' = (qdrant_down /\ QdrantRefused(name, env))
        /\ IF Hangs(Issued(name, env), ProbeTimeout(name))
              THEN /\ pc' = "hung"
                   /\ UNCHANGED <<i, results, passed_tests, kinds, exit_code, sigint, handler>>
           ELSE IF out.kind = "interrupt"
              THEN /\ pc' = "done"
                   /\ exit_code' = 130
                   /\ sigint' = IF sigint = "none" THEN "suite" ELSE sigint
                   /\ handler' = "KeyboardInterrupt"
                   /\ UNCHANGED <<i, results, passed_tests, kinds>>
              ELSE /\ results' = StoreResult(results, name, out)
                   /\ passed_tests' = passed_tests + PassedIncrement(out)
                   /\ kinds' = Append(kinds, out.kind)
                   /\ i' = NextIndex(i, out)
                   /\ sigint' = IF sigint = "none" /\ SwallowsInterrupt(name, env)
                                   THEN "suite" ELSE sigint
                   /\ UNCHANGED <<pc, exit_code, handler>>
    /\ UNCHANGED <<summary, printed, report, written>>

\* The end of run_validation_suite: the summary is built and printed.
Summarize ==
    /\ script = "validate_system"
    /\ UNCHANGED <<script, stdout, probe, qdrant_down>>
    /\ pc = "suite"
    /\ i > Len(tests)
    /\ IF Len(tests) = 0
          THEN \* ZeroDivisionError, caught by main's except Exception
               /\ pc' = "done"
               /\ exit_code' = 1
               /\ handler' = "Exception"
               /\ UNCHANGED <<summary, printed>>
          ELSE /\ summary' = Summary(Len(tests), passed_tests, results)
               /\ printed' = print_summary(summary')
               /\ pc' = "save"
               /\ UNCHANGED <<exit_code, handler>>
    /\ UNCHANGED <<i, results, passed_tests, report, executed, kinds, sigint, written>>

\* main: the report is written over validation_report.json.
SaveReport ==
    /\ script = "validate_system"
    /\ UNCHANGED <<script, stdout, probe, qdrant_down>>
    /\ pc = "save"
    /\ report' = WriteFile(report, summary)
    /\ written' = TRUE
    /\ pc' = "exit"
    /\ UNCHANGED <<i, results, passed_tests, summary, printed, exit_code, executed,
                   kinds, sigint, handler>>

\* main: writing the report raises an OSError, before the file is opened
\* or after open has emptied it; main's except Exception exits with 1.
SaveReportFails ==
    /\ script = "validate_system"
    /\ UNCHANGED <<script, stdout, probe, qdrant_down>>
    /\ pc = "save"
    /\ report' \in {report, Partial}
    /\ pc' = "done"
    /\ exit_code' = 1
    /\ handler' = "Exception"
    /\ UNCHANGED <<i, results, passed_tests, summary, printed, executed, kinds,
                   sigint, written>>

\* main: sys.exit with the status of the success rate.
Exit ==
    /\ script = "validate_system"
    /\ UNCHANGED <<script, stdout, probe, qdrant_down>>
    /\ pc = "exit"
    /\ exit_code' = ExitStatus(summary.success_rate)
    /\ pc' = "done"
    /\ UNCHANGED <<i, results, passed_tests, summary, printed, report, executed,
                   kinds, sigint, handler, written>>

\* A KeyboardInterrupt delivered between two checks, while the summary is
\* built, while the report is written or before sys.exit: main exits 130.
Interrupt ==
    /\ script = "validate_system"
    /\ UNCHANGED <<script, stdout, probe, qdrant_down>>
    /\ pc \in {"suite", "save", "exit"}
    /\ sigint' = IF sigint # "none" THEN sigint
                 ELSE IF pc = "suite" THEN "suite" ELSE "main"
    /\ report' \in IF pc = "save" THEN {report, Partial} ELSE {report}
    /\ pc' = "done"
    /\ exit_code' = 130
    /\ handler' = "KeyboardInterrupt"
    /\ UNCHANGED <<i, results, passed_tests, summary, printed, executed, kinds,
                   written>>

\* One iteration of the loop of main of test_system.py.  A
\* KeyboardInterrupt that leaves the check ends the process: main has no
\* handler for it.
ts_RunCheck ==
    /\ script = "test_system"
    /\ pc = "suite"
    /\ i <= Len(ts_tests)
    /\ \E env \in ts_SuiteEnvs(ts_tests[i]) :
        LET name == ts_tests[i]
            out == ts_test_func(name, env) IN
        /\ executed' = Append(executed, name)
        /\ IF Hangs(ts_Issued(name, env), ts_ProbeTimeout(name))
              THEN /\ pc' = "hung"
                   /\ UNCHANGED <<i, results, kinds, exit_code, sigint, handler>>
           ELSE IF out.kind = "interrupt"
              THEN /\ pc' = "done"
                   /\ exit_code' \in UncaughtInterruptStatus
                   /\ sigint' = "suite"
                   /\ handler' = "uncaught"
                   /\ UNCHANGED <<i, results, kinds>>
              ELSE /\ results' = Append(results, ts_ResultOf(name, out))
                   /\ kinds' = Append(kinds, out.kind)
                   /\ i' = i + 1
                   /\ UNCHANGED <<pc, exit_code, sigint, handler>>
    /\ UNCHANGED <<stdout, qdrant_down, probe, script, passed_tests, summary, printed, report, written>>

\* The summary of main of test_system.py and sys.exit(exit_code).
ts_Summary ==
    /\ script = "test_system"
    /\ pc = "suite"
    /\ i > Len(ts_tests)
    /\ passed_tests' = Cardinality({k \in DOMAIN results : results[k].passed})
    /\ exit_code' = ts_ExitStatus(passed_tests', Len(results))
    /\ pc' = "done"
    /\ UNCHANGED <<stdout, qdrant_down, probe, script, i, results, summary, printed, report, executed, kinds, sigint,
                   handler, written>>

\* A KeyboardInterrupt delivered to test_system.py between two checks.
ts_Interrupt ==
    /\ script = "test_system"
    /\ pc = "suite"
    /\ pc' = "done"
    /\ exit_code' \in UncaughtInterruptStatus
    /\ sigint' = "suite"
    /\ handler' = "uncaught"
    /\ UNCHANGED <<stdout, qdrant_down, probe, script, i, results, passed_tests, summary, printed, report, executed,
                   kinds, written>>

Next ==
    \/ RunCheck
    \/ Summarize
    \/ SaveReport
    \/ SaveReportFails
    \/ Exit
    \/ Interrupt
    \/ ts_RunCheck
    \/ ts_Summary
    \/ ts_Interrupt

Spec == Init /\ [][Next]_vars

\* The scripts are sequential programs: a step that can be taken is taken.
LiveSpec == Init /\ [][Next]_vars /\ WF_vars(Next)

\* ------------------------------------------------------------------------
\* A check function, or run_command, called on its own: the situations it
\* may meet, wider than those a whole run of the suite is followed through.

\* What a command may come to.
CommandResults ==
    { Completed(rc, out) :
        rc \in {0, 1, 2},
        out \in {<<>>, <<"Up 2 hours">>, <<"No such container: ondc-mcp-server">>,
                 <<"Command timed out">>} }
    \cup {TimedOut, OSError, CmdInterrupt}

\* What a request to a service may come to.
HttpFailures == {Resp(404, JEmpty), Resp(503, JEmpty), Refused, ReadTimeout, HttpInterrupt}

\* Log texts: every selection of the expected markers, a marker inside a
\* longer line, a marker twice, and a log without any.
MarkerLogs ==
    { SelectSeq(success_indicators, LAMBDA m : m \in S) :
        S \in SUBSET {success_indicators[k] : k \in DOMAIN success_indicators} }
    \cup { <<"Starting server">>,
           <<"INFO MCP Server initialized successfully">>,
           <<"Vector search: Enabled", "Starting server", "Vector search: Enabled">> }

\* The states of a config file.
ConfigFiles ==
    { GoodFile,
      [exists |-> FALSE, read |-> "error", content |-> <<>>],
      [exists |-> TRUE, read |-> "error", content |-> <<>>],
      [exists |-> TRUE, read |-> "interrupt", content |-> <<>>],
      [exists |-> TRUE, read |-> "ok", content |-> <<"API_KEY=your-api-key">>],
      [exists |-> TRUE, read |-> "ok",
       content |-> <<"GEMINI_API_KEY=your_gemini_api_key_here", "API_KEY=your_api_key_here">>] }

CheckEnvs(name) ==
    CASE name = "Docker Services" -> DockerEnvs
      [] name = "Qdrant Database" ->
            { [health |-> h, collections |-> c, details |-> d, modern |-> m] :
                m \in BOOLEAN,
                h \in {Resp(200, JEmpty)} \cup HttpFailures,
                c \in {Resp(200, CollectionsBody(<<"ondc_products">>)),
                       Resp(200, CollectionsBody(<<"other">>)),
                       Resp(200, NamelessBody), Resp(200, JBad)} \cup HttpFailures,
                d \in {Resp(200, DetailsBody(n)) : n \in 0..MaxPoints}
                      \cup {Resp(200, JEmpty), Resp(200, JBad)} \cup HttpFailures }
      [] name = "Vector Search" ->
            { [search |-> r, modern |-> m] :
                m \in BOOLEAN,
                r \in {Resp(200, SearchBody(n)) : n \in 0..MaxPoints}
                      \cup {Resp(200, JBad), Resp(200, JArr(<<>>))} \cup HttpFailures }
      [] name = "Himira API" ->
            { [api |-> r, modern |-> m] :
                m \in BOOLEAN,
                r \in {Resp(200, ApiBody(n)) : n \in 0..MaxPoints}
                      \cup {Resp(200, JBad), Resp(200, JArr(<<>>))} \cup HttpFailures }
      [] name = "MCP Server" ->
            { [logs |-> l] :
                l \in {Completed(rc, t) : rc \in {0, 1}, t \in MarkerLogs}
                      \cup {TimedOut, OSError, CmdInterrupt} }
      [] name = "ETL Pipeline" -> EtlEnvs
      [] name = "Environment Config" ->
            { [files |-> <<f, g>>] : f \in ConfigFiles, g \in ConfigFiles }
      [] name = "Port Accessibility" ->
            { [ports |-> <<a, b>>] :
                a \in {Resp(200, JEmpty)} \cup HttpFailures,
                b \in {Resp(200, JEmpty)} \cup HttpFailures }
      [] name = "Disk Space" -> DiskEnvs
      [] name = "System Resources" -> ResourceEnvs
      [] name = "run_command" -> { [cmd |-> c] : c \in CommandResults }

ts_CheckEnvs(name) ==
    CASE name = "Docker Services" -> ts_DockerEnvs
      [] name = "Qdrant Database" ->
            { [health |-> h, collections |-> c, details |-> d, search |-> r] :
                h \in {Resp(200, JEmpty), Resp(404, JEmpty), Refused},
                c \in {Resp(200, CollectionsBody(<<"ondc_products">>)),
                       Resp(200, NamelessBody), Resp(404, JEmpty), Refused},
                d \in {Resp(200, DetailsBody(n)) : n \in 0..MaxPoints}
                      \cup {Resp(404, JEmpty), Refused},
                r \in {Resp(200, SearchBody(MaxPoints)), Resp(404, JEmpty), Refused} }
      [] name = "Himira API" -> ts_ApiEnvs \cup {[api |-> Resp(404, JEmpty)]}
      [] name = "MCP Server" ->
            { [logs |-> l] :
                l \in {Completed(rc, t) : rc \in {0, 1}, t \in MarkerLogs}
                      \cup {TimedOut, OSError, CmdInterrupt} }

\* The callables of validate_system.py: the ten checks and run_command.
Callables == {tests[k] : k \in DOMAIN tests} \cup {"run_command"}

\* One of them is about to be called in one of its situations.
ProbeInit ==
    /\ script \in {"validate_system", "test_system"}
    /\ pc = "call"
    /\ probe \in IF script = "validate_system"
                    THEN UNION { { [name |-> n, env |-> e, out |-> NoOut] : e \in CheckEnvs(n) } :
                                 n \in Callables }
                    ELSE UNION { { [name |-> n, env |-> e, out |-> NoOut] : e \in ts_CheckEnvs(n) } :
                                 n \in {ts_tests[k] : k \in DOMAIN ts_tests} }
    /\ i = 1
    /\ results = <<>>
    /\ passed_tests = 0
    /\ summary = NoSummary
    /\ printed = NothingPrinted
    /\ report = NoFile
    /\ exit_code = -1
    /\ executed = <<>>
    /\ kinds = <<>>
    /\ sigint = "none"
    /\ handler = "none"
    /\ written = FALSE
    /\ stdout = "ok"
    /\ qdrant_down = TRUE

\* The check function returns, raises, or is left by a KeyboardInterrupt.
CallCheck ==
    /\ script = "validate_system"
    /\ pc = "call"
    /\ probe.name # "run_command"
    /\ probe' = [probe EXCEPT !.out = test_func(probe.name, probe.env)]
    /\ pc' = "returned"
    /\ UNCHANGED <<script, i, results, passed_tests, summary, printed, report, exit_code,
                   executed, kinds, sigint, handler, written, stdout, qdrant_down>>

\* run_command returns its pair.
CallRunCommand ==
    /\ script = "validate_system"
    /\ pc = "call"
    /\ probe.name = "run_command"
    /\ probe' = [probe EXCEPT !.out = run_command(probe.env.cmd)]
    /\ pc' = "returned"
    /\ UNCHANGED <<script, i, results, passed_tests, summary, printed, report, exit_code,
                   executed, kinds, sigint, handler, written, stdout, qdrant_down>>

\* A check function of test_system.py returns its bool.
ts_CallCheck ==
    /\ script = "test_system"
    /\ pc = "call"
    /\ probe' = [probe EXCEPT !.out = ts_test_func(probe.name, probe.env)]
    /\ pc' = "returned"
    /\ UNCHANGED <<script, i, results, passed_tests, summary, printed, report, exit_code,
                   executed, kinds, sigint, handler, written, stdout, qdrant_down>>

ProbeNext ==
    \/ CallCheck
    \/ CallRunCommand
    \/ ts_CallCheck

ProbeSpec == ProbeInit /\ [][ProbeNext]_vars

\* ------------------------------------------------------------------------
\* validate_system.py with a console that may fail.  stdout is "ok",
\* "ascii" (its encoding has none of the symbols the script prints, so that
\* print raises UnicodeEncodeError) or "closed" (a pipe whose reader is
\* gone, a full device: what is printed stays in the buffer or print raises
\* OSError when the buffer is flushed, and the flush at exit fails).

\* Whether a print succeeds (TRUE) or raises; symbols says that the text
\* holds characters outside ASCII.
PrintOk(so, symbols) ==
    IF so = "ok" THEN {TRUE} ELSE IF so = "ascii" THEN {~symbols} ELSE BOOLEAN

ConsoleError(so) == IF so = "ascii" THEN "UnicodeEncodeError" ELSE "OSError"

\* The prints of one iteration of the loop: log_step, the log_test of the
\* check, log_success / log_error of the result, log_error of the handler
\* and the print() after the try.
Prints(so) ==
    { [step |-> a, test |-> b, result |-> c, handler |-> d, spacing |-> e] :
        a \in PrintOk(so, FALSE), b \in PrintOk(so, TRUE), c \in PrintOk(so, TRUE),
        d \in PrintOk(so, TRUE), e \in PrintOk(so, FALSE) }

\* A mutant of HandlerStore: the handler leaves a record that the try body
\* has stored.
HandlerStoreKeeps(res, name, e) ==
    IF \E k \in DOMAIN res : res[k].name = name THEN res
    ELSE DictSet(res, name, ResultOf(name, Raise(e)))

\* The handler of the loop: results[test_name] = the failed record.
HandlerStore(res, name, e) == DictSet(res, name, ResultOf(name, Raise(e)))

\* One iteration of the loop of run_validation_suite for the check `name`
\* that comes to out (a return or a raise), with the prints p: the results
\* and the counter after it, and whether an exception left the loop.
LoopBody(res, cnt, name, out, p, so) ==
    LET raised == ~p.test \/ out.kind = "raise"
        e == IF ~p.test THEN ConsoleError(so) ELSE out.message[1]
        stored == IF raised THEN res ELSE DictSet(res, name, ResultOf(name, out))
        logged == ~raised /\ p.result
        counted == IF logged /\ out.passed THEN cnt + 1 ELSE cnt IN
    IF ~p.step THEN [results |-> res, passed_tests |-> cnt, escaped |-> TRUE]
    ELSE IF logged
        THEN [results |-> stored, passed_tests |-> counted, escaped |-> ~p.spacing]
    ELSE IF ~p.handler THEN [results |-> stored, passed_tests |-> cnt, escaped |-> TRUE]
    ELSE [results |-> HandlerStore(stored, name, IF raised THEN e ELSE ConsoleError(so)),
          passed_tests |-> cnt, escaped |-> ~p.spacing]

\* The statuses the process may end with when Python is left with `status`:
\* the interpreter flushes stdout at exit and ends with 120 when that flush
\* fails, which it does on a closed stdout with output still in the buffer
\* (with an unbuffered stdout there is none).
FinalStatus(status, so) == IF so = "closed" THEN {status, 120} ELSE {status}

\* The situations the runs with a failing console are followed through: per
\* check one in which it passes, for the Docker check one in which it
\* fails, and for the Qdrant check one in which it raises.
Outcome(name, wanted) ==
    { e \in SuiteEnvs(name) :
        /\ test_func(name, e).kind = wanted.kind
        /\ test_func(name, e).passed = wanted.passed }
Passes == [kind |-> "return", passed |-> TRUE]
Fails == [kind |-> "return", passed |-> FALSE]
Raises == [kind |-> "raise", passed |-> FALSE]
OneOf(S) == IF S = {} THEN {} ELSE {CHOOSE e \in S : TRUE}
ConsoleEnvs(name) ==
    OneOf(Outcome(name, Passes))
        \cup (IF name = "Docker Services" THEN OneOf(Outcome(name, Fails)) ELSE {})
        \cup (IF name = "Qdrant Database" THEN OneOf(Outcome(name, Raises)) ELSE {})

ConsoleInit ==
    /\ script = "validate_system"
    /\ stdout \in {"ok", "ascii", "closed"}
    /\ pc = "banner"
    /\ i = 1
    /\ results = <<>>
    /\ passed_tests = 0
    /\ summary = NoSummary
    /\ printed = NothingPrinted
    /\ report = OldReport
    /\ exit_code = -1
    /\ executed = <<>>
    /\ kinds = <<>>
    /\ sigint = "none"
    /\ handler = "none"
    /\ written = FALSE
    /\ qdrant_down = TRUE
    /\ probe = NoCall

\* run_validation_suite prints its banner.
c_Banner ==
    /\ pc = "banner"
    /\ \E ok \in PrintOk(stdout, TRUE) : pc' = IF ok THEN "suite" ELSE "handler"
    /\ UNCHANGED <<script, i, results, passed_tests, summary, printed, report, exit_code,
                   executed, kinds, sigint, handler, written, stdout, qdrant_down, probe>>

\* One iteration of the loop, its prints included; an exception that leaves
\* the loop is on its way to the handlers of main.  probe keeps the last
\* check that was called and what it came to.
c_RunCheck ==
    /\ pc = "suite"
    /\ i <= Len(tests)
    /\ \E env \in ConsoleEnvs(tests[i]), p \in Prints(stdout) :
        LET name == tests[i]
            out == test_func(name, env)
            after == LoopBody(results, passed_tests, name, out, p, stdout) IN
        /\ executed' = IF p.step THEN Append(executed, name) ELSE executed
        /\ kinds' = IF p.step THEN Append(kinds, IF p.test THEN out.kind ELSE "raise")
                     ELSE kinds
        /\ qdrant_down' = (qdrant_down /\ QdrantRefused(name, env))
        /\ results' = after.results
        /\ passed_tests' = after.passed_tests
        /\ probe' = IF p.step /\ p.test THEN [name |-> name, env |-> env, out |-> out]
                     ELSE probe
        /\ i' = IF after.escaped THEN i ELSE i + 1
        /\ pc' = IF after.escaped THEN "handler" ELSE "suite"
    /\ UNCHANGED <<script, summary, printed, report, exit_code, sigint, handler, written,
                   stdout>>

\* The summary is built and printed, and returned to main unless
\* print_summary raises.
c_Summarize ==
    /\ pc = "suite"
    /\ i > Len(tests)
    /\ \E ok \in PrintOk(stdout, TRUE) :
          IF ok THEN /\ summary' = Summary(Len(tests), passed_tests, results)
                     /\ printed' = print_summary(summary')
                     /\ pc' = "save"
                ELSE /\ pc' = "handler"
                     /\ UNCHANGED <<summary, printed>>
    /\ UNCHANGED <<script, i, results, passed_tests, report, exit_code, executed, kinds,
                   sigint, handler, written, stdout, qdrant_down, probe>>

\* main writes the report and logs that it is saved; open or json.dump may
\* raise an OSError, and so may the log_info after them.
c_SaveReport ==
    /\ pc = "save"
    /\ \/ /\ report' = WriteFile(report, summary)
          /\ written' = TRUE
          /\ \E ok \in PrintOk(stdout, TRUE) : pc' = IF ok THEN "exit" ELSE "handler"
       \/ /\ report' \in {report, Partial}
          /\ pc' = "handler"
          /\ UNCHANGED written
    /\ UNCHANGED <<script, i, results, passed_tests, summary, printed, exit_code, executed,
                   kinds, sigint, handler, stdout, qdrant_down, probe>>

\* main: sys.exit with the status of the success rate.
c_Exit ==
    /\ pc = "exit"
    /\ exit_code' \in FinalStatus(ExitStatus(summary.success_rate), stdout)
    /\ pc' = "done"
    /\ UNCHANGED <<script, i, results, passed_tests, summary, printed, report, executed,
                   kinds, sigint, handler, written, stdout, qdrant_down, probe>>

\* main: except Exception.  log_error, then sys.exit(1); when log_error
\* raises, the exception is uncaught and Python ends with status 1.
c_Handler ==
    /\ pc = "handler"
    /\ handler' = "Exception"
    /\ exit_code' \in FinalStatus(1, stdout)
    /\ pc' = "done"
    /\ UNCHANGED <<script, i, results, passed_tests, summary, printed, report, executed,
                   kinds, sigint, written, stdout, qdrant_down, probe>>

\* main: except KeyboardInterrupt.  log_warning, then sys.exit(130); when
\* log_warning raises, the exception is uncaught and Python ends with 1.
c_Interrupt ==
    /\ pc \in {"banner", "suite", "save", "exit"}
    /\ sigint' = IF pc \in {"banner", "suite"} THEN "suite" ELSE "main"
    /\ handler' = "KeyboardInterrupt"
    /\ report' \in IF pc = "save" THEN {report, Partial} ELSE {report}
    /\ \E ok \in PrintOk(stdout, TRUE) :
          exit_code' \in FinalStatus(IF ok THEN 130 ELSE 1, stdout)
    /\ pc' = "done"
    /\ UNCHANGED <<script, i, results, passed_tests, summary, printed, executed, kinds,
                   written, stdout, qdrant_down, probe>>

ConsoleNext ==
    \/ c_Banner
    \/ c_RunCheck
    \/ c_Summarize
    \/ c_SaveReport
    \/ c_Exit
    \/ c_Handler
    \/ c_Interrupt

ConsoleSpec == ConsoleInit /\ [][ConsoleNext]_vars

\* ------------------------------------------------------------------------
\* Properties of the run.

\* The registration list of the script that runs.
Registered == IF script = "validate_system" THEN tests ELSE ts_tests

\* The number of passed records of a results dict.
PassedCount(res) == Cardinality({k \in DOMAIN res : res[k].passed})

\* C1: a check function that raises an unhandled error is recorded as a
\* result with passed = false, and the checks registered after it are still
\* executed: after a raising check the loop is either on its way to the next
\* check, or has run all of them, or was ended by a KeyboardInterrupt.
\* (The four checks of test_system.py catch Exception themselves, so none of
\* them raises to its main.)
C1_RaiseIsRecordedAndRunGoesOn ==
    \A k \in DOMAIN kinds :
        kinds[k] = "raise" =>
            /\ \E r \in DOMAIN results :
                  results[r].name = Registered[k] /\ results[r].passed = FALSE
            /\ \/ executed = Registered
               \/ handler \in {"KeyboardInterrupt", "uncaught"}
               \/ pc = "suite" /\ i = Len(executed) + 1 /\ i <= Len(Registered)

\* A run in which the second check raised and the eight after it ran.
C1_Witness ==
    /\ pc = "done"
    /\ handler = "none"
    /\ kinds[2] = "raise"
    /\ executed = tests
    /\ results[2] = [name |-> "Qdrant Database", passed |-> FALSE,
                     message |-> <<"Unexpected error: ", "KeyError">>]

\* C2: whatever the checks come to (pass, fail, raise), the summary holds
\* exactly one record per registered check, in registration order: as many
\* records as registered checks, which is total_tests.
C2_OneRecordPerCheck ==
    summary # NoSummary =>
        /\ Len(summary.results) = Len(tests)
        /\ summary.total_tests = Len(tests)
        /\ \A k \in DOMAIN tests : summary.results[k].name = tests[k]

\* A summary of a run with a passed, a failed and a raising check.
C2_Witness ==
    /\ summary # NoSummary
    /\ \E k \in DOMAIN kinds : kinds[k] = "raise"
    /\ \E k \in DOMAIN kinds : kinds[k] = "return" /\ ~summary.results[k].passed
    /\ \E k \in DOMAIN kinds : summary.results[k].passed

C4_SuccessRate ==
    /\ summary # NoSummary =>
          /\ summary.passed_tests = PassedCount(summary.results)
          /\ IF summary.total_tests = 0 THEN summary.success_rate = 0
             ELSE summary.success_rate * summary.total_tests = 100 * summary.passed_tests
          /\ summary.success_rate \in 0..100
    /\ ~(handler = "Exception" /\ summary = NoSummary)

\* A summary of seven passed checks of ten: 70.
C4_Witness ==
    /\ summary # NoSummary
    /\ summary.passed_tests = 7
    /\ summary.total_tests = Len(tests)
    /\ summary.success_rate = 70

\* C5 as stated: a KeyboardInterrupt delivered while the suite runs ends
\* the process at once with exit code 130; no further check runs and the
\* report is not written.
C5_InterruptEndsTheRun ==
    (script = "validate_system" /\ sigint = "suite") =>
        (pc = "done" /\ exit_code = 130 /\ ~written)

\* C6: in a run that is not interrupted the executed checks are the
\* registration list: in order, each exactly once, none skipped after a
\* failed or raising check.
C6_ExecutedIsRegistrationList ==
    /\ Len(executed) <= Len(Registered)
    /\ \A k \in DOMAIN executed : executed[k] = Registered[k]
    /\ (summary # NoSummary \/ (pc = "done" /\ sigint = "none")) => executed = Registered

\* A finished run with a failed first check and a raising second one.
C6_Witness ==
    /\ pc = "done"
    /\ sigint = "none"
    /\ executed = tests
    /\ kinds[1] = "return" /\ ~results[1].passed
    /\ kinds[2] = "raise"

\* C7: when the outcome is failed (success_rate < 70), print_summary lists
\* the name and message of every record with passed = false, and of no
\* record with passed = true.
C7_FailedRunListsEveryFailure ==
    (printed # NothingPrinted /\ summary.success_rate < 70) =>
        /\ \A k \in DOMAIN summary.results :
              ~summary.results[k].passed <=>
                  \E l \in DOMAIN printed.issues :
                      /\ printed.issues[l].name = summary.results[k].name
                      /\ printed.issues[l].message = summary.results[k].message
        /\ Len(printed.issues) = summary.failed_tests

\* A failed run of which four failures are listed and six checks passed.
C7_Witness ==
    /\ printed.verdict = "FAILED"
    /\ Len(printed.issues) = 4
    /\ PassedCount(summary.results) = 6

C9_ReportRoundTrip ==
    written =>
        /\ report.kind = "json"
        /\ json_load(report.doc).total_tests = summary.total_tests
        /\ json_load(report.doc).passed_tests = summary.passed_tests
        /\ json_load(report.doc).failed_tests = summary.failed_tests
        /\ json_load(report.doc).success_rate = summary.success_rate
        /\ json_load(report.doc).passed_tests + json_load(report.doc).failed_tests
              = Len(tests)
        /\ (pc = "done" /\ handler = "none") =>
              exit_code = ExitStatus(json_load(report.doc).success_rate)

\* A saved report of a run with eight passed and two failed checks.
C9_Witness ==
    /\ written
    /\ pc = "done"
    /\ handler = "none"
    /\ json_load(report.doc).passed_tests = 8
    /\ json_load(report.doc).failed_tests = 2

\* C10 as stated: no check function raises to the runner.
C10_NoCheckRaises == \A k \in DOMAIN kinds : kinds[k] # "raise"

\* C11: every probe is issued with a timeout, so that a dependency that
\* never answers ends as a failed probe: every run, of either script,
\* eventually exits.
C11_EveryRunExits == <>(pc = "done")

\* A finished run in which docker ps was ended by its timeout.
C11_Witness ==
    /\ script = "validate_system"
    /\ pc = "done"
    /\ handler = "none"
    /\ exit_code \in {0, 1, 2}
    /\ results[1].message = <<"Failed to check running containers: ", "Command timed out">>

\* C12: the quick health check exits, for every number p of passed checks of
\* its four, with the code of the threshold mapping (0 from 90, 1 from 70, 2
\* below) at the rate 100 * p / 4: 0 for four, 1 for three, 2 for fewer.
C12_QuickCheckExitCode ==
    (script = "test_system" /\ pc = "done" /\ handler = "none") =>
        /\ passed_tests = PassedCount(results)
        /\ passed_tests \in 0..4
        /\ Len(results) = 4
        /\ exit_code = ExitStatus(SuccessRate(passed_tests, Len(results)))
        /\ passed_tests = 4 => (SuccessRate(passed_tests, 4) = 100 /\ exit_code = 0)
        /\ passed_tests = 3 => (SuccessRate(passed_tests, 4) = 75 /\ exit_code = 1)
        /\ passed_tests = 1 => (SuccessRate(passed_tests, 4) = 25 /\ exit_code = 2)

\* A run of the quick health check with three passed checks of four.
C12_Witness ==
    /\ script = "test_system"
    /\ pc = "done"
    /\ handler = "none"
    /\ passed_tests = 3
    /\ exit_code = 1

\* The check of validate_system.py that was called on its own has returned
\* or raised.
Returned ==
    /\ script = "validate_system"
    /\ pc = "returned"
    /\ probe.name # "run_command"
    /\ probe.out.kind # "interrupt"

\* C13 as stated: whenever a request of a check is answered with status
\* 404, the check's result has passed = false and its message contains
\* "404"; here for the requests of the Qdrant and the vector search check,
\* the GET of the ondc_products collection among them.
C13_Status404Fails ==
    (Returned /\ probe.name \in {"Qdrant Database", "Vector Search"}
              /\ \E k \in DOMAIN Issued(probe.name, probe.env) :
                    /\ Issued(probe.name, probe.env)[k].kind = "response"
                    /\ Issued(probe.name, probe.env)[k].status = 404) =>
        /\ probe.out.kind = "return"
        /\ ~probe.out.passed
        /\ InSeq("404", probe.out.message)

\* The collection is reached and reports no points.
ZeroPoints(env) ==
    /\ env.details = Resp(200, DetailsBody(0))
    /\ env.collections = Resp(200, CollectionsBody(<<"ondc_products">>))
    /\ env.health = Resp(200, JEmpty)

\* A request of the Qdrant check that is issued fails to reach its target:
\* a connection error, a timeout or a status other than 200.
ReachabilityFailure(issued) ==
    \E k \in DOMAIN issued :
        \/ issued[k].kind = "error"
        \/ issued[k].kind = "response" /\ issued[k].status # 200

\* C14: when the ondc_products collection is reached and reports
\* points_count = 0 the Qdrant check passes, its message shows the count 0,
\* and no message of the check for a reachability failure, nor for a
\* collection with points, is that message.  (test_qdrant of test_system.py:
\* it returns True and its last line is the warning that there are no
\* products, which it prints in no other case.)
C14_ZeroPointsFlagged ==
    /\ (Returned /\ probe.name = "Qdrant Database" /\ ZeroPoints(probe.env)) =>
          /\ probe.out = Ret(TRUE, <<"Qdrant OK - ", "0", " points, ", "0", " vectors">>)
          /\ \A e \in CheckEnvs("Qdrant Database") :
                (\/ ReachabilityFailure(Issued("Qdrant Database", e))
                 \/ ReachesDetails(e) /\ e.details \in
                        {Resp(200, DetailsBody(n)) : n \in 1..MaxPoints}) =>
                    test_qdrant_health(e).message # probe.out.message
    /\ (script = "test_system" /\ pc = "returned" /\ probe.name = "Qdrant Database"
           /\ ZeroPoints(probe.env)) =>
          /\ probe.out.kind = "return" /\ probe.out.passed
          /\ InSeq("No products in vector database - run ETL to populate", probe.out.message)
          /\ \A e \in ts_CheckEnvs("Qdrant Database") :
                ~ZeroPoints(e) =>
                    ~InSeq("No products in vector database - run ETL to populate",
                           ts_test_qdrant(e).message)

\* The Qdrant check has returned for a reachable collection without points.
C14_Witness ==
    /\ Returned
    /\ probe.name = "Qdrant Database"
    /\ ZeroPoints(probe.env)
    /\ probe.out.passed

\* run_command has been called on its own and is over; no KeyboardInterrupt
\* was delivered while the command ran (it would leave run_command, not
\* being an Exception).
RunCommandOver ==
    /\ script = "validate_system"
    /\ pc = "returned"
    /\ probe.name = "run_command"
    /\ probe.env.cmd.kind # "interrupt"

\* C15 as stated: run_command gives (False, "Command timed out") for a
\* command that exceeds its timeout and (exit code = 0, stdout + stderr)
\* for one that completes, never raises, and the pair of a timeout is not
\* the pair of any command that completed with a non-zero exit code.
C15_TimeoutIsDistinct ==
    RunCommandOver =>
        /\ ~probe.out.interrupted
        /\ probe.env.cmd.kind = "timeout" =>
              (~probe.out.success /\ probe.out.output = <<"Command timed out">>)
        /\ probe.env.cmd.kind = "completed" =>
              /\ probe.out.success = (probe.env.cmd.rc = 0)
              /\ probe.out.output = probe.env.cmd.out
              /\ probe.env.cmd.rc # 0 => probe.out # run_command(TimedOut)

\* C15 amended: the same, but the pair of a timeout is that of no command
\* that completed with a non-zero exit code other than one whose whole
\* output is the text "Command timed out".
C15_RunCommandPair ==
    RunCommandOver =>
        /\ ~probe.out.interrupted
        /\ probe.env.cmd.kind = "timeout" =>
              (~probe.out.success /\ probe.out.output = <<"Command timed out">>)
        /\ probe.env.cmd.kind = "completed" =>
              /\ probe.out.success = (probe.env.cmd.rc = 0)
              /\ probe.out.output = probe.env.cmd.out
              /\ (probe.env.cmd.rc # 0 /\ probe.env.cmd.out # <<"Command timed out">>) =>
                    probe.out # run_command(TimedOut)

\* run_command has returned for a command that exceeded its timeout.
C15_Witness ==
    /\ RunCommandOver
    /\ probe.env.cmd.kind = "timeout"
    /\ probe.out.output = <<"Command timed out">>

\* The number of expected markers that occur in a log text.
MarkersFound(text) ==
    Cardinality({k \in DOMAIN success_indicators : Contains(text, success_indicators[k])})

\* C16: the MCP-server check passes exactly when the log command succeeded
\* and at least one of the three markers occurs in the log; the count it
\* then reports is the number of the markers found, 1 to 3; when the log
\* command fails the check fails whatever the output holds.  So do
\* test_mcp_server_logs and test_mcp_server of test_system.py.
C16_McpPassesOnAnyMarker ==
    /\ (Returned /\ probe.name = "MCP Server") =>
          LET l == probe.env.logs
              n == MarkersFound(l.out) IN
          /\ probe.out.kind = "return"
          /\ probe.out.passed <=> (l.kind = "completed" /\ l.rc = 0 /\ n >= 1)
          /\ probe.out.passed =>
                /\ n \in 1..3
                /\ probe.out.message =
                      <<"MCP Server OK - Found: ", ToString(n), "/3 success indicators">>
    /\ (script = "test_system" /\ pc = "returned" /\ probe.name = "MCP Server"
           /\ probe.out.kind # "interrupt") =>
          LET l == probe.env.logs
              n == MarkersFound(l.out) IN
          /\ probe.out.kind = "return"
          /\ probe.out.passed <=> (l.kind = "completed" /\ l.rc = 0 /\ n >= 1)
          /\ probe.out.passed =>
                /\ n \in 1..3
                /\ SubSeq(probe.out.message, 1, 3) =
                      <<"MCP Server initialized - Found ", ToString(n), "/3 success indicators">>

\* The check has passed on a log with two of the three markers.
C16_Witness ==
    /\ Returned
    /\ probe.name = "MCP Server"
    /\ probe.out.passed
    /\ MarkersFound(probe.env.logs.out) = 2

\* The placeholders, in list order, that occur in a file.
PlaceholdersIn(f) == SelectSeq(placeholder_indicators, LAMBDA p : Contains(f.content, p))

\* A config file that is missing, cannot be read or holds a placeholder.
Offending(f) == ~f.exists \/ f.read # "ok" \/ PlaceholdersIn(f) # <<>>

\* The position of the first offending file in config_files.
FirstOffending(env) ==
    CHOOSE k \in DOMAIN config_files :
        Offending(env.files[k]) /\ \A j \in 1..(k - 1) : ~Offending(env.files[j])

\* C17 as stated: the environment-config check passes exactly when every
\* config file exists, can be read and holds no placeholder; when it fails
\* its message names the first offending file, in list order, and for a
\* placeholder the first placeholder, in list order, found in that file.
C17_NamesFirstOffender ==
    (Returned /\ probe.name = "Environment Config") =>
        /\ probe.out.kind = "return"
        /\ probe.out.passed <=> \A k \in DOMAIN config_files : ~Offending(probe.env.files[k])
        /\ ~probe.out.passed =>
              LET k == FirstOffending(probe.env)
                  f == probe.env.files[k] IN
              /\ InSeq(config_files[k], probe.out.message)
              /\ (f.exists /\ f.read = "ok") =>
                    probe.out.message =
                        <<"Found placeholder '", Head(PlaceholdersIn(f)), "' in ", config_files[k]>>

\* C20: in a run of validate_system in which every request to the local
\* Qdrant ports is refused, the Qdrant Database, Vector Search and Port
\* Accessibility checks fail, at most 7 of the 10 checks pass, and the run
\* does not exit with code 0.
C20_QdrantDownNeverHealthy ==
    (script = "validate_system" /\ qdrant_down) =>
        /\ \A r \in DOMAIN results : IsQdrantCheck(results[r].name) => ~results[r].passed
        /\ passed_tests <= 7
        /\ summary # NoSummary =>
              /\ summary.passed_tests <= 7
              /\ \A r \in DOMAIN summary.results :
                    IsQdrantCheck(summary.results[r].name) => ~summary.results[r].passed
        /\ pc = "done" => exit_code # 0

\* A finished run with Qdrant down in which the seven other checks passed.
C20_Witness ==
    /\ script = "validate_system"
    /\ qdrant_down
    /\ pc = "done"
    /\ handler = "none"
    /\ summary.passed_tests = 7
    /\ exit_code = 1

\* C18: in every summary that run_validation_suite returns, passed_tests +
\* failed_tests = total_tests and passed_tests is the number of records
\* with passed = true: also when a check raises, and when the log_success
\* of a check that returned success raises before the counter is
\* incremented.
C18_CounterMatchesRecords ==
    summary # NoSummary =>
        /\ summary.passed_tests + summary.failed_tests = summary.total_tests
        /\ summary.passed_tests = PassedCount(summary.results)
        /\ summary.total_tests = Len(summary.results)

\* A summary of a run in which the last check returned success and the
\* log_success after it raised, while earlier checks were counted.
C18_Witness ==
    /\ summary # NoSummary
    /\ probe.name = tests[Len(tests)]
    /\ probe.out.kind = "return"
    /\ probe.out.passed
    /\ summary.results[Len(tests)].message = <<"Unexpected error: ", "OSError">>
    /\ summary.passed_tests > 0

\* C19 as stated: an unexpected error in main outside the boundary of the
\* checks (the report cannot be written, a print of the summary raises)
\* ends the process with exit code 1, so that the exit code of a run is
\* always 0, 1, 2 or, when it is interrupted, 130.
C19_ExitCodes ==
    pc = "done" =>
        /\ handler = "Exception" => exit_code = 1
        /\ handler = "none" => exit_code \in {0, 1, 2}
        /\ handler = "KeyboardInterrupt" => exit_code \in {0, 1, 2, 130}

====
